---- MODULE Spec2Model ----
(***************************************************************************)
(* A model of the Ringba call-tracking reconciliation tool.                *)
(*                                                                         *)
(*   Spec       the webhook ingestion service of app.py: ringba_webhook    *)
(*              handlers and the background_writer task on one asyncio     *)
(*              event loop, the in-memory queue, the processed_calls       *)
(*              table and the "Ringba Raw" sheet.                          *)
(*   SchedSpec  the reporting loop of monitor.py: start_monitoring,        *)
(*              is_business_hours, get_next_report_time and the window     *)
(*              selection of run_monitoring_cycle.                         *)
(*   ReconSpec  the data path of one cycle of monitor.py:                  *)
(*              _parse_ringba_data, _process_spreadsheet_data,             *)
(*              enhance_metrics_with_accurate_cpa and calculate_totals.    *)
(*                                                                         *)
(* The three parts share no state in the program (they are separate        *)
(* processes or pure functions); each specification steps its own          *)
(* variables and leaves the others at their initial values.                *)
(***************************************************************************)
EXTENDS Integers, Sequences, FiniteSets, TLC

VARIABLES
    \* ---- app.py ----
    queue,        \* background_writer_queue: the rows waiting for a flush
    lock,         \* background_writer_lock: the task holding it, or NoTask
    processed,    \* the call_ids of table processed_calls
    sink,         \* rows of sheet "Ringba Raw": call_id -> number of rows
    running,      \* the task the event loop is executing, or NoTask
    hpc,          \* handler -> its position in ringba_webhook
    hreq,         \* handler -> the call_id of its request body
    wpc,          \* position of background_writer
    batch,        \* rows_to_flush of background_writer
    enqueued,     \* history: every row appended to the queue, in order
    drained,      \* history: every row sliced off the queue, in order
    submits,      \* history: call_id -> requests received
    accepted,     \* history: call_id -> responses {"status": "queued"}
    dups,         \* history: call_id -> responses {"status": "duplicate"}
    markCalls,    \* history: call_id -> calls of mark_processed
    writeThrough, \* history: call_id -> returned submits that took the
                  \*          queue-full branch
    badSubmits,   \* history: requests received without a call_id
    errors,       \* history: responses with status 500
    tick,         \* background_writer: whether the downstream write of its
                  \* last tick failed, and the seconds it sleeps before the
                  \* next one
    \* ---- monitor.py, the reporting loop ----
    now,          \* the wall clock, datetime.now(timezone.utc), in seconds
                  \* since a Monday 00:00 UTC
    next_run,     \* next_run of start_monitoring
    spc,          \* position of start_monitoring
    wake,         \* history: the last wake-up of the loop and what it did
    windows,      \* history: the windows fetched by the cycles of the
                  \* local day of the last cycle, in order
    \* ---- monitor.py, the data of one cycle ----
    rstage,       \* how far the cycle's data path has got
    cycle_now,    \* the clock run_monitoring_cycle read (line 624)
    records,      \* data["report"]["records"] of the Ringba response
    parsed,       \* the list _parse_ringba_data returned
    sheet,        \* the rows of the sales spreadsheet
    sheet_ok,     \* whether the spreadsheet could be read
    window,       \* start_time, end_time of the cycle (UTC instants)
    sales_data,   \* the dict get_sales_from_spreadsheet returned, as its
                  \* (publisher, count) items in insertion order
    metrics,      \* the list enhance_metrics_with_accurate_cpa returned
    totals,       \* the record calculate_totals returned
    delivered,    \* the messages Slack accepted from the cycle
    outbox        \* the messages the cycle handed to session.post

ingestVars == <<queue, lock, processed, sink, running, hpc, hreq, wpc, batch,
                enqueued, drained, submits, accepted, dups, markCalls,
                writeThrough, badSubmits, errors, tick>>

schedVars == <<now, next_run, spc, wake, windows>>

reconVars ==
    <<rstage, cycle_now, records, parsed, sheet, sheet_ok, window, sales_data,
      metrics, totals, delivered, outbox>>

(***************************************************************************)
(* Bounds of the model.  MAX_QUEUE_SIZE is 100 and the flush batch 25 in   *)
(* app.py (lines 34 and 235); the model keeps their roles and their order  *)
(* (batch < capacity) at a size TLC can enumerate.                         *)
(***************************************************************************)
MAX_QUEUE_SIZE == 2

\* a writer whose slices take nothing
FlushNothing == MAX_QUEUE_SIZE - MAX_QUEUE_SIZE

FlushBatch == MAX_QUEUE_SIZE - 1
NumCallIds == MAX_QUEUE_SIZE + 1
NumHandlers == 2
MaxExtraRequests == 1

CallIds == 1..NumCallIds
Handlers == 1..NumHandlers
NoTask == 0
Writer == NumHandlers + 1
NoCallId == 0

Min(a, b) == IF a < b THEN a ELSE b

\* line 315: the row built from the body; only row[0], the call_id, is read
\* again by the program.
Row(c) == [call_id |-> c]

CountIn(s, c) == Cardinality({i \in DOMAIN s : s[i].call_id = c})

(***************************************************************************)
(* app.py, the database helpers.                                           *)
(***************************************************************************)
IsDuplicateNever(c, table) == FALSE

\* is_duplicate: SELECT 1 FROM processed_calls WHERE call_id = ?
IsDuplicate(c, table) == c \in table

\* mark_processed: INSERT OR IGNORE INTO processed_calls
MarkProcessedTable(c, table) == table \cup {c}

(***************************************************************************)
(* background_writer, lines 235-236: the slice that is flushed and the     *)
(* slice that stays.                                                       *)
(***************************************************************************)
RowsToFlushNewest(q) == SubSeq(q, Len(q) - Min(FlushBatch, Len(q)) + 1, Len(q))

\* line 235: background_writer_queue[:25]
RowsToFlush(q) == SubSeq(q, 1, Min(FlushBatch, Len(q)))

RemainingRowsKeepLast(q) == SubSeq(q, Min(FlushBatch, Len(q)), Len(q))

RemainingRows(q) == SubSeq(q, Min(FlushBatch, Len(q)) + 1, Len(q))

\* append_to_sheet: the rows are appended when the Sheets call succeeds; a
\* failure is logged and swallowed (lines 176-177), the sheet is unchanged
\* and the caller sees a normal return.
AppendToSheet(raw_sheet, rows, ok) ==
    IF ok
    THEN [c \in CallIds |-> raw_sheet[c] + CountIn(rows, c)]
    ELSE raw_sheet

ZeroCounts == [c \in CallIds |-> 0]

\* line 220: await asyncio.sleep(2)
SleepInterval == 2

RECURSIVE SumTo(_, _)
SumTo(f, n) == IF n = 0 THEN 0 ELSE f[n] + SumTo(f, n - 1)

\* requests that repeat a call_id delivered before, or carry no call_id
ExtraRequests ==
    SumTo([c \in CallIds |-> IF submits[c] > 0 THEN submits[c] - 1 ELSE 0],
          NumCallIds) + badSubmits

IngestInit ==
    /\ queue = <<>>
    /\ lock = NoTask
    /\ processed = {}
    /\ sink = ZeroCounts
    /\ running = NoTask
    /\ hpc = [h \in Handlers |-> "idle"]
    /\ hreq = [h \in Handlers |-> NoCallId]
    /\ wpc = "sleep"
    /\ batch = <<>>
    /\ enqueued = <<>>
    /\ drained = <<>>
    /\ submits = ZeroCounts
    /\ accepted = ZeroCounts
    /\ dups = ZeroCounts
    /\ markCalls = ZeroCounts
    /\ writeThrough = ZeroCounts
    /\ badSubmits = 0
    /\ errors = 0
    /\ tick = [failed |-> FALSE, delay |-> SleepInterval]

(***************************************************************************)
(* The event loop.  All coroutines run on one asyncio loop (uvicorn.run,   *)
(* line 506): a task keeps the loop from the point it is resumed to its    *)
(* next suspension.  The suspension points of the program are              *)
(*   ringba_webhook     await request.json()             (line 283)       *)
(*                      async with background_writer_lock, only when the  *)
(*                      lock is held                       (line 333)       *)
(*   background_writer  await asyncio.sleep(2)            (line 220)       *)
(*                      async with background_writer_lock, only when held *)
(* ensure_headers_exist and append_to_sheet are coroutines without an      *)
(* await of their own (the Sheets client's execute() is a blocking call),  *)
(* so awaiting them does not give up the loop.                             *)
(***************************************************************************)

\* A request arrives and the loop starts a handler task for it: a webhook
\* delivery with some call_id, or a body without one.  Call ids are
\* interchangeable, so a first delivery always takes the least id not yet
\* seen; so are the handler tasks, and a request takes the least idle one.
Receive(h, c) ==
    /\ running = NoTask
    /\ hpc[h] = "idle"
    /\ \A g \in Handlers : g < h => hpc[g] # "idle"
    /\ \/ c = NoCallId /\ ExtraRequests < MaxExtraRequests
       \/ /\ c \in CallIds
          /\ submits[c] > 0 => ExtraRequests < MaxExtraRequests
          /\ \A d \in CallIds : d < c => submits[d] > 0
    /\ hpc' = [hpc EXCEPT ![h] = "body"]
    /\ hreq' = [hreq EXCEPT ![h] = c]
    /\ submits' = IF c \in CallIds THEN [submits EXCEPT ![c] = @ + 1] ELSE submits
    /\ badSubmits' = IF c \in CallIds THEN badSubmits ELSE badSubmits + 1
    /\ UNCHANGED <<queue, lock, processed, sink, running, wpc, batch, enqueued,
                   drained, accepted, dups, markCalls, writeThrough, errors, tick>>

\* The loop resumes a handler: after request.json() (line 283), or at the
\* lock it was waiting for (line 333).
HandlerResume(h) ==
    /\ running = NoTask
    /\ hpc[h] \in {"body", "wait"}
    /\ hpc[h] = "wait" => lock = NoTask
    /\ running' = h
    /\ hpc' = [hpc EXCEPT ![h] = IF hpc[h] = "body" THEN "parsed" ELSE "locked"]
    /\ lock' = IF hpc[h] = "wait" THEN h ELSE lock
    /\ UNCHANGED <<queue, processed, sink, hreq, wpc, batch, enqueued, drained,
                   submits, badSubmits, accepted, dups, markCalls, writeThrough, errors, tick>>

\* lines 289-297: the call_id check and the duplicate check.  The
\* HTTPException(400) of line 292 is raised inside the try block and caught
\* by "except Exception" (line 350), which raises HTTPException(500).
CheckRequest(h) ==
    /\ running = h
    /\ hpc[h] = "parsed"
    /\ IF hreq[h] = NoCallId
       THEN /\ errors' = errors + 1
            /\ hpc' = [hpc EXCEPT ![h] = "idle"]
            /\ running' = NoTask
            /\ dups' = dups
       ELSE IF IsDuplicate(hreq[h], processed)
       THEN /\ dups' = [dups EXCEPT ![hreq[h]] = @ + 1]
            /\ hpc' = [hpc EXCEPT ![h] = "idle"]
            /\ running' = NoTask
            /\ errors' = errors
       ELSE /\ hpc' = [hpc EXCEPT ![h] = "lock"]
            /\ UNCHANGED <<running, dups, errors>>
    /\ UNCHANGED <<queue, lock, processed, sink, hreq, wpc, batch, enqueued,
                   drained, submits, badSubmits, accepted, markCalls, writeThrough,
                   tick>>

\* line 333: async with background_writer_lock.  asyncio.Lock.acquire takes
\* a free lock without suspending and suspends the task otherwise.
HandlerAcquire(h) ==
    /\ running = h
    /\ hpc[h] = "lock"
    /\ IF lock = NoTask
       THEN /\ lock' = h
            /\ hpc' = [hpc EXCEPT ![h] = "locked"]
            /\ running' = running
       ELSE /\ lock' = lock
            /\ hpc' = [hpc EXCEPT ![h] = "wait"]
            /\ running' = NoTask
    /\ UNCHANGED <<queue, processed, sink, hreq, wpc, batch, enqueued, drained,
                   submits, badSubmits, accepted, dups, markCalls, writeThrough, errors, tick>>

QueueFullAboveMax(q) == Len(q) > MAX_QUEUE_SIZE

\* line 334: len(background_writer_queue) >= MAX_QUEUE_SIZE
QueueFull(q) == Len(q) >= MAX_QUEUE_SIZE

\* lines 334-342: the queue-full test; the row is appended, or the handler
\* goes on to the immediate write.
Enqueue(h) ==
    /\ running = h
    /\ hpc[h] = "locked"
    /\ IF QueueFull(queue)
       THEN /\ hpc' = [hpc EXCEPT ![h] = "emergency"]
            /\ UNCHANGED <<queue, enqueued>>
       ELSE /\ queue' = Append(queue, Row(hreq[h]))
            /\ enqueued' = Append(enqueued, Row(hreq[h]))
            /\ hpc' = [hpc EXCEPT ![h] = "unlock"]
    /\ UNCHANGED <<lock, processed, sink, running, hreq, wpc, batch, drained,
                   submits, badSubmits, accepted, dups, markCalls, writeThrough, errors, tick>>

\* line 337: await append_to_sheet("Ringba Raw", [row]), with the lock held.
EmergencyWrite(h) ==
    /\ running = h
    /\ hpc[h] = "emergency"
    /\ \E ok \in BOOLEAN : sink' = AppendToSheet(sink, <<Row(hreq[h])>>, ok)
    /\ hpc' = [hpc EXCEPT ![h] = "unlock_wt"]
    /\ UNCHANGED <<queue, lock, processed, running, hreq, wpc, batch, enqueued,
                   drained, submits, badSubmits, accepted, dups, markCalls, writeThrough,
                   errors, tick>>

\* a release that gives up the event loop
HandlerReleaseYielding(h) ==
    /\ running = h
    /\ hpc[h] \in {"unlock", "unlock_wt"}
    /\ lock' = NoTask
    /\ running' = NoTask
    /\ hpc' = [hpc EXCEPT ![h] = IF hpc[h] = "unlock" THEN "mark" ELSE "mark_wt"]
    /\ UNCHANGED <<queue, processed, sink, hreq, wpc, batch, enqueued,
                   drained, submits, badSubmits, accepted, dups, markCalls, writeThrough,
                   errors, tick>>

\* the end of the async with block of line 333: Lock.release() does not
\* suspend, the handler runs on to line 345
HandlerRelease(h) ==
    /\ running = h
    /\ hpc[h] \in {"unlock", "unlock_wt"}
    /\ lock' = NoTask
    /\ hpc' = [hpc EXCEPT ![h] = IF hpc[h] = "unlock" THEN "mark" ELSE "mark_wt"]
    /\ UNCHANGED <<queue, processed, sink, running, hreq, wpc, batch, enqueued,
                   drained, submits, badSubmits, accepted, dups, markCalls, writeThrough,
                   errors, tick>>

\* lines 345-348: mark_processed(call_id) and the "queued" response.
MarkProcessed(h) ==
    /\ running = h
    /\ hpc[h] \in {"mark", "mark_wt"}
    /\ processed' = MarkProcessedTable(hreq[h], processed)
    /\ markCalls' = [markCalls EXCEPT ![hreq[h]] = @ + 1]
    /\ accepted' = [accepted EXCEPT ![hreq[h]] = @ + 1]
    /\ writeThrough' = IF hpc[h] = "mark_wt"
                       THEN [writeThrough EXCEPT ![hreq[h]] = @ + 1]
                       ELSE writeThrough
    /\ hpc' = [hpc EXCEPT ![h] = "idle"]
    /\ running' = NoTask
    /\ UNCHANGED <<queue, lock, sink, hreq, wpc, batch, enqueued, drained,
                   submits, badSubmits, dups, errors, tick>>

\* background_writer, line 220: asyncio.sleep(2) is over, or the lock it
\* waited for is free.
WriterResume ==
    /\ running = NoTask
    /\ wpc \in {"sleep", "wait"}
    /\ wpc = "wait" => lock = NoTask
    /\ running' = Writer
    /\ wpc' = IF wpc = "sleep" THEN "lock" ELSE "locked"
    /\ lock' = IF wpc = "wait" THEN Writer ELSE lock
    /\ UNCHANGED <<queue, processed, sink, hpc, hreq, batch, enqueued, drained,
                   submits, badSubmits, accepted, dups, markCalls, writeThrough, errors, tick>>

\* line 222: async with background_writer_lock
WriterAcquire ==
    /\ running = Writer
    /\ wpc = "lock"
    /\ IF lock = NoTask
       THEN /\ lock' = Writer
            /\ wpc' = "locked"
            /\ running' = running
       ELSE /\ lock' = lock
            /\ wpc' = "wait"
            /\ running' = NoTask
    /\ UNCHANGED <<queue, processed, sink, hpc, hreq, batch, enqueued, drained,
                   submits, badSubmits, accepted, dups, markCalls, writeThrough, errors, tick>>

\* lines 224-236: an empty queue ends the tick ("continue" leaves the
\* async with block); otherwise ensure_headers_exist (which swallows its
\* own failures and touches only the header row) and the two slices.
WriterDrain ==
    /\ running = Writer
    /\ wpc = "locked"
    /\ IF queue = <<>>
       THEN /\ wpc' = "unlock"
            /\ UNCHANGED <<queue, batch, drained>>
       ELSE /\ batch' = RowsToFlush(queue)
            /\ queue' = RemainingRows(queue)
            /\ drained' = drained \o RowsToFlush(queue)
            /\ wpc' = "write"
    /\ tick' = [tick EXCEPT !.failed = FALSE]
    /\ UNCHANGED <<lock, processed, sink, running, hpc, hreq, enqueued, submits, badSubmits,
                   accepted, dups, markCalls, writeThrough, errors>>

\* lines 238-245: await append_to_sheet("Ringba Raw", rows_to_flush), with
\* the lock held.  append_to_sheet returns normally also when the Sheets
\* call failed (lines 176-177).
WriterWrite ==
    /\ running = Writer
    /\ wpc = "write"
    /\ \E ok \in BOOLEAN :
           /\ sink' = AppendToSheet(sink, batch, ok)
           /\ tick' = [tick EXCEPT !.failed = ~ok]
    /\ batch' = <<>>
    /\ wpc' = "unlock"
    /\ UNCHANGED <<queue, lock, processed, running, hpc, hreq, enqueued, drained,
                   submits, badSubmits, accepted, dups, markCalls, writeThrough, errors>>

\* the end of the async with block of line 222, and back to line 220:
\* nothing was raised inside the try block, so the handler of lines 247-250
\* and its sleep(5) are not entered and the next sleep is that of line 220
WriterRelease ==
    /\ running = Writer
    /\ wpc = "unlock"
    /\ lock' = NoTask
    /\ wpc' = "sleep"
    /\ running' = NoTask
    /\ tick' = [tick EXCEPT !.delay = SleepInterval]
    /\ UNCHANGED <<queue, processed, sink, hpc, hreq, batch, enqueued, drained,
                   submits, badSubmits, accepted, dups, markCalls, writeThrough, errors>>


(***************************************************************************)
(* monitor.py: the clock.  An aware datetime is modelled by its instant,   *)
(* in seconds since Monday 00:00 UTC of the first week; its fields are     *)
(* read from the wall-clock seconds of the fixed zone                      *)
(* timezone(timedelta(hours=-4)) that every conversion of monitor.py uses. *)
(***************************************************************************)
Minute == 60
Hour == 60 * Minute
Day == 24 * Hour
Week == 7 * Day

\* timezone(timedelta(hours=-4)), lines 216, 301, 624, 700, 714
EdtOffset == 4 * Hour

\* dt.astimezone(timezone(timedelta(hours=-4))): the local wall clock
ToEDT(u) == u - EdtOffset

\* local.astimezone(timezone.utc): back to the instant
FromEDT(l) == l + EdtOffset

\* datetime.weekday(): 0 is Monday, 6 is Sunday
Weekday(l) == (l \div Day) % 7

HourOf(l) == (l % Day) \div Hour

MinuteOf(l) == (l % Hour) \div Minute

\* the calendar day of a local datetime
DateOf(l) == l \div Day

\* edt.replace(hour=h, minute=m, second=0, microsecond=0)
Replace(l, h, m) == DateOf(l) * Day + h * Hour + m * Minute

IsBusinessHoursAlways(dt) == TRUE

IsBusinessHoursThroughNine(dt) ==
    Weekday(ToEDT(dt)) < 6 /\ 9 <= HourOf(ToEDT(dt)) /\ HourOf(ToEDT(dt)) <= 21

\* is_business_hours, lines 697-709
IsBusinessHours(dt) ==
    LET edt == ToEDT(dt)
    IN  IF Weekday(edt) >= 6
        THEN FALSE
        ELSE 9 <= HourOf(edt) /\ HourOf(edt) < 21

\* get_next_report_time, lines 717-718
report_hours == <<11, 13, 15, 17, 19, 21>>

report_minutes_on_the_hour == <<0, 0, 0, 0, 0, 0>>

report_minutes == <<0, 0, 0, 5, 0, 0>>

SlotAheadInclusive(edt, i) ==
    \/ HourOf(edt) < report_hours[i]
    \/ HourOf(edt) = report_hours[i] /\ MinuteOf(edt) <= report_minutes[i]

\* line 722: the test that slot i of today is still ahead of edt
SlotAhead(edt, i) ==
    \/ HourOf(edt) < report_hours[i]
    \/ HourOf(edt) = report_hours[i] /\ MinuteOf(edt) < report_minutes[i]

SkipNothing(l) == l

\* lines 730-731: while next_day.weekday() == 6: next_day += one day
RECURSIVE SkipSunday(_)
SkipSunday(l) == IF Weekday(l) = 6 THEN SkipSunday(l + Day) ELSE l

GetNextReportTimeLast(now_utc) ==
    LET edt == ToEDT(now_utc)
        ahead == {i \in DOMAIN report_hours : SlotAhead(edt, i)}
    IN  IF ahead # {}
        THEN LET i == CHOOSE j \in ahead : \A k \in ahead : j >= k
             IN  FromEDT(Replace(edt, report_hours[i], report_minutes[i]))
        ELSE FromEDT(SkipSunday(Replace(edt, 11, 0) + Day))

\* get_next_report_time, lines 711-734, with the clock reading of line 713
\* as its argument
GetNextReportTime(now_utc) ==
    LET edt == ToEDT(now_utc)
        ahead == {i \in DOMAIN report_hours : SlotAhead(edt, i)}
    IN  IF ahead # {}
        THEN LET i == CHOOSE j \in ahead : \A k \in ahead : j <= k
             IN  FromEDT(Replace(edt, report_hours[i], report_minutes[i]))
        ELSE FromEDT(SkipSunday(Replace(edt, 11, 0) + Day))

\* a rolling window: the two hours before the clock
WindowForLastTwoHours(est_now) ==
    [report_type |-> "2-hour", start |-> est_now - 2 * Hour, end |-> est_now]

\* run_monitoring_cycle, lines 630-666: the data window for the hour of the
\* clock, as local datetimes; "none" is the early return of line 666.
WindowFor(est_now) ==
    LET h == HourOf(est_now)
    IN  IF h >= 11 /\ h < 13
        THEN [report_type |-> "2-hour", start |-> Replace(est_now, 9, 0),
              end |-> Replace(est_now, 11, 0)]
        ELSE IF h >= 13 /\ h < 15
        THEN [report_type |-> "2-hour", start |-> Replace(est_now, 11, 0),
              end |-> Replace(est_now, 13, 0)]
        ELSE IF h >= 15 /\ h < 17
        THEN [report_type |-> "2-hour", start |-> Replace(est_now, 13, 0),
              end |-> Replace(est_now, 15, 0)]
        ELSE IF h >= 17 /\ h < 19
        THEN [report_type |-> "2-hour", start |-> Replace(est_now, 15, 0),
              end |-> Replace(est_now, 17, 5)]
        ELSE IF h >= 19 /\ h < 21
        THEN [report_type |-> "2-hour", start |-> Replace(est_now, 17, 0),
              end |-> Replace(est_now, 19, 0)]
        ELSE IF h >= 21
        THEN [report_type |-> "end-of-day", start |-> Replace(est_now, 19, 0),
              end |-> Replace(est_now, 21, 0)]
        ELSE [report_type |-> "none", start |-> 0, end |-> 0]

\* the window left as local datetimes
CycleWindowLocal(t) == WindowFor(ToEDT(t))

\* lines 624 and 669-670: the window of a cycle run at instant t, as the
\* UTC instants handed to the two fetches
CycleWindow(t) ==
    LET w == WindowFor(ToEDT(t))
    IN  IF w.report_type = "none"
        THEN w
        ELSE [report_type |-> w.report_type, start |-> FromEDT(w.start),
              end |-> FromEDT(w.end)]

(***************************************************************************)
(* Bounds of the reporting loop: where the service may be started, how     *)
(* late a sleep may end, how long a cycle may take (each of its three      *)
(* requests runs under aiohttp's default total timeout of five minutes),   *)
(* and how long the run is followed.                                       *)
(***************************************************************************)
StartStepMinutes == 5
StartSecond == 30
WakeLatency == 2
MaxCycleMinutes == 15
HorizonDays == 9

Horizon == HorizonDays * Day

StartTimes ==
    {k * StartStepMinutes * Minute + s :
        k \in 0..((Week \div (StartStepMinutes * Minute)) - 1),
        s \in {0, StartSecond}}

\* line 774: the cooldown of the loop's own exception handler
Cooldown == 5 * Minute

\* a wake-up of the loop: the trigger slept for, the instant the sleep
\* ended, what the loop did, the report_type of its cycle, whether the
\* cycle raised, when the cycle returned and when next_run was recomputed
NoWake ==
    [trigger |-> 0, at |-> 0, outcome |-> "none", report_type |-> "none",
     raised |-> FALSE, ended |-> 0, scheduled |-> 0,
     fetched |-> FALSE, post |-> "none", posts |-> 0]

\* start_monitoring, line 744: the service is started at some instant and
\* computes its first trigger.
SchedInit ==
    /\ now \in StartTimes
    /\ next_run = GetNextReportTime(now)
    /\ spc = "wait"
    /\ wake = NoWake
    /\ windows = <<>>

\* lines 750-755: sleep until next_run; the sleep ends at or shortly after
\* the trigger.
Sleep ==
    /\ spc = "wait"
    /\ next_run < Horizon
    /\ \E late \in {0, WakeLatency} :
           now' = IF next_run - now > 0 THEN next_run + late ELSE now
    /\ spc' = "woke"
    /\ wake' = [NoWake EXCEPT !.trigger = next_run, !.at = now']
    /\ UNCHANGED <<next_run, windows>>

\* line 758 and lines 764-767: outside business hours the cycle is skipped
\* and the next trigger computed at once.
Decide ==
    /\ spc = "woke"
    /\ IF IsBusinessHours(now)
       THEN /\ spc' = "cycle"
            /\ UNCHANGED <<next_run, wake>>
       ELSE /\ spc' = "wait"
            /\ next_run' = GetNextReportTime(now)
            /\ wake' = [wake EXCEPT !.outcome = "skip", !.scheduled = now]
    /\ UNCHANGED <<now, windows>>

\* the windows of the local day of window w, with w added
WindowsWith(ws, w) ==
    IF ws # <<>> /\ DateOf(ToEDT(ws[1].start)) = DateOf(ToEDT(w.start))
    THEN Append(ws, w)
    ELSE <<w>>

ReportOutcomeAlways(raised, fetched, posted_ok) ==
    IF posted_ok THEN "ok" ELSE "failed"

\* lines 679-692 with 412-414 and 488-497 (502-504 and 609-618): what
\* becomes of the cycle's summary.  Nothing is posted when the Ringba list
\* is empty or when an exception ends the cycle before the post; a post
\* that Slack answers with 200 is "ok", any other answer and an exception
\* of the post are logged inside the send function, "failed".
ReportOutcome(raised, fetched, posted_ok) ==
    IF raised \/ ~fetched THEN "none"
    ELSE IF posted_ok THEN "ok"
    ELSE "failed"

PostAttemptsRetrying(outcome) ==
    IF outcome = "none" THEN 0 ELSE IF outcome = "ok" THEN 1 ELSE 2

\* lines 489-490 and 610-611: the calls of session.post in a cycle; the
\* call is in no loop
PostAttempts(outcome) == IF outcome = "none" THEN 0 ELSE 1

\* lines 759-763: run_monitoring_cycle, which takes some time, then the
\* next trigger.  An exception raised inside the cycle is caught and logged
\* by the cycle itself (lines 694-695): the call returns normally and the
\* loop goes on to line 762.  Nothing else in the loop body raises, so the
\* loop's own handler (lines 772-774) is never entered.  The cycle's
\* inputs: whether fetch_ringba_data returned any entity (it returns [] on
\* every failure, lines 128-142), whether an exception ended the cycle
\* (only the work on a non-empty list can raise: the window arithmetic
\* and the branch of line 692 cannot), and whether Slack accepted the post.
RunCycle ==
    /\ spc = "cycle"
    /\ \E d \in {0, MaxCycleMinutes * Minute} : now' = now + d
    /\ LET w == CycleWindow(now)
       IN  /\ \E raised, fetched, posted_ok \in BOOLEAN :
                 /\ raised => fetched
                 /\ posted_ok => (fetched /\ ~raised)
                 /\ wake' = [wake EXCEPT
                       !.outcome = "cycle",
                       !.report_type = w.report_type,
                       !.raised = raised,
                       !.ended = now',
                       !.scheduled = now',
                       !.fetched = fetched,
                       !.post = ReportOutcome(raised, fetched, posted_ok),
                       !.posts = PostAttempts(ReportOutcome(raised, fetched, posted_ok))]
           /\ windows' = IF w.report_type = "none"
                         THEN windows
                         ELSE WindowsWith(windows, [start |-> w.start, end |-> w.end])
    /\ next_run' = GetNextReportTime(now')
    /\ spc' = "wait"

(***************************************************************************)
(* monitor.py: numbers.  Counters are integers.  Money and percentages    *)
(* are floats in the program and integers of hundredths here (12.34 is     *)
(* 1234); a quotient is kept exact, as a fraction in lowest terms.         *)
(***************************************************************************)
Abs(a) == IF a < 0 THEN -a ELSE a

RECURSIVE Gcd(_, _)
Gcd(a, b) == IF b = 0 THEN a ELSE Gcd(b, a % b)

Zero == [n |-> 0, d |-> 1]

\* the ZeroDivisionError of a / 0
DivisionError == [n |-> 0, d |-> 0]

\* a / b
Div(a, b) ==
    IF b = 0
    THEN DivisionError
    ELSE LET g == Gcd(Abs(a), Abs(b))
             sg == IF b < 0 THEN -1 ELSE 1
         IN  [n |-> sg * (a \div g), d |-> sg * (b \div g)]

(***************************************************************************)
(* The values of a Ringba record: a number (in hundredths), a number with  *)
(* a "%" suffix, a text that is no number, or nothing (absent, None, "",   *)
(* 0).                                                                     *)
(***************************************************************************)
Num(v) == [k |-> "num", v |-> v]
Pct(v) == [k |-> "pct", v |-> v]
BadValue == [k |-> "bad", v |-> 0]
Absent == [k |-> "absent", v |-> 0]

\* "if not value": None, "", 0 and 0.0 are falsy
Falsy(value) == value.k = "absent" \/ (value.k = "num" /\ value.v = 0)

\* safe_float, lines 165-172: the "%" is stripped, anything unparseable is
\* the default 0.0
SafeFloat(value) ==
    IF Falsy(value) THEN 0
    ELSE IF value.k \in {"num", "pct"} THEN value.v
    ELSE 0

\* int(float(x)) truncates toward zero
Truncate(v) == IF v >= 0 THEN v \div 100 ELSE -((-v) \div 100)

\* safe_int, lines 174-180: int(float(value)); a "%" suffix is not stripped
\* here, so float() raises and the default 0 is returned
SafeInt(value) ==
    IF Falsy(value) THEN 0
    ELSE IF value.k = "num" THEN Truncate(value.v)
    ELSE 0

(***************************************************************************)
(* Publisher names.  str.strip, str.lower and str.upper on the names the   *)
(* model draws from.                                                       *)
(***************************************************************************)
Strip(s) == IF s = "  " THEN "" ELSE s

Lower(s) ==
    CASE s = "MISSING" -> "missing"
      [] s = "Missing" -> "missing"
      [] s = "Unknown" -> "unknown"
      [] s = "Acme" -> "acme"
      [] s = "Beta" -> "beta"
      [] s = "Gamma" -> "gamma"
      [] OTHER -> s

Upper(s) ==
    CASE s = "missing" -> "MISSING"
      [] s = "Missing" -> "MISSING"
      [] s = "Unknown" -> "UNKNOWN"
      [] s = "unknown" -> "UNKNOWN"
      [] s = "Acme" -> "ACME"
      [] s = "Beta" -> "BETA"
      [] s = "Gamma" -> "GAMMA"
      [] OTHER -> s

\* PublisherMetrics, lines 17-41, with its defaults; sales_display is the
\* attribute line 399 adds to a synthesized entity ("" when it has none).
DefaultMetrics(name) ==
    [publisher_name |-> name, incoming |-> 0, live |-> 0, completed |-> 0,
     ended |-> 0, connected |-> 0, paid |-> 0, converted |-> 0,
     no_connect |-> 0, duplicate |-> 0, blocked |-> 0, ivr_hangup |-> 0,
     revenue |-> 0, payout |-> 0, profit |-> 0, margin |-> 0,
     conversion_percent |-> Zero, tcl_seconds |-> 0, acl_seconds |-> 0,
     total_cost |-> 0, sales_count |-> 0, accurate_cpa |-> Zero,
     sales_display |-> ""]

CpaUnguarded(m) == Div(m.payout, m.completed)

\* PublisherMetrics.cpa, lines 43-48
Cpa(m) == IF m.completed = 0 THEN Zero ELSE Div(m.payout, m.completed)

\* PublisherMetrics.calculate_accurate_cpa, lines 57-61
CalculateAccurateCpa(m, sales_count) ==
    IF sales_count = 0 THEN Zero ELSE Div(m.payout, sales_count)

\* _parse_ringba_data, lines 153-158: the label of a record
PublisherLabel(raw_name) ==
    IF raw_name = "" \/ Strip(raw_name) = ""
       \/ Lower(Strip(raw_name)) \in {"unknown", "missing"}
    THEN "Unknown Publisher"
    ELSE raw_name

IsMissingSentinelExact(raw_name) == raw_name = "MISSING"

\* lines 160-162: the record is skipped
IsMissingSentinel(raw_name) == raw_name # "" /\ Upper(raw_name) = "MISSING"

\* lines 182-203: one record as a PublisherMetrics
ParseRecord(row) ==
    [DefaultMetrics(PublisherLabel(row.publisherName)) EXCEPT
        !.incoming = SafeInt(row.callCount),
        !.live = SafeInt(row.liveCallCount),
        !.completed = SafeInt(row.completedCalls),
        !.ended = SafeInt(row.endedCalls),
        !.connected = SafeInt(row.connectedCallCount),
        !.paid = SafeInt(row.payoutCount),
        !.converted = SafeInt(row.convertedCalls),
        !.no_connect = SafeInt(row.nonConnectedCallCount),
        !.duplicate = SafeInt(row.duplicateCalls),
        !.blocked = SafeInt(row.blockedCalls),
        !.ivr_hangup = SafeInt(row.incompleteCalls),
        !.revenue = SafeFloat(row.conversionAmount),
        !.payout = SafeFloat(row.payoutAmount),
        !.profit = SafeFloat(row.profitGross),
        !.margin = SafeFloat(row.profitMarginGross),
        !.conversion_percent = Div(SafeFloat(row.convertedPercent), 100),
        !.tcl_seconds = SafeInt(row.callLengthInSeconds),
        !.acl_seconds = SafeInt(row.avgHandleTime),
        !.total_cost = SafeFloat(row.totalCost)]

\* _parse_ringba_data, lines 144-211
RECURSIVE ParseRingbaData(_)
ParseRingbaData(rows) ==
    IF rows = <<>> THEN <<>>
    ELSE IF IsMissingSentinel(Head(rows).publisherName)
    THEN ParseRingbaData(Tail(rows))
    ELSE <<ParseRecord(Head(rows))>> \o ParseRingbaData(Tail(rows))

(***************************************************************************)
(* The sales spreadsheet.  A row has the texts of its Lookup_Publisher,    *)
(* Date and Time cells; a Date is "m/d/yyyy" (here the day it names),      *)
(* empty ("nan") or some other text, a Time is "h:mm:ss AM/PM", empty or   *)
(* some other text.                                                        *)
(***************************************************************************)
\* lines 265, 275 and 282: rows that are skipped before the comparison
RowUsable(row) ==
    /\ ~(row.publisher = "Not Found" \/ row.publisher = "nan"
         \/ Strip(row.publisher) = "")
    /\ row.date.k = "mdy"
    /\ row.time.k = "hms"

\* lines 290-297: the hour of a Time text on the 24-hour clock
HourOfTime(t) ==
    IF t.ampm = "PM" /\ t.h # 12 THEN t.h + 12
    ELSE IF t.ampm = "AM" /\ t.h = 12 THEN 0
    ELSE t.h

\* lines 284, 299-301: the sale's datetime, in the fixed zone UTC-4, as an
\* instant; the seconds of the Time text are not read
SaleTime(row) ==
    FromEDT(row.date.day * Day + HourOfTime(row.time) * Hour + row.time.m * Minute)

InRangeHalfOpen(start_edt, t, end_edt) == start_edt <= t /\ t < end_edt

\* line 304: the test that counts a sale
InRange(start_edt, t, end_edt) == start_edt <= t /\ t <= end_edt

\* dict.get(name, 0) on the items of a dict
SalesGet(items, name) ==
    IF \E i \in DOMAIN items : items[i].name = name
    THEN LET i == CHOOSE j \in DOMAIN items : items[j].name = name
         IN  items[i].count
    ELSE 0

\* lines 306-308: sales_data[publisher] += 1, a new key going last
Increment(items, name) ==
    IF \E i \in DOMAIN items : items[i].name = name
    THEN [i \in DOMAIN items |->
            IF items[i].name = name
            THEN [name |-> name, count |-> items[i].count + 1]
            ELSE items[i]]
    ELSE Append(items, [name |-> name, count |-> 1])

\* _process_spreadsheet_data, lines 250-318
RECURSIVE ProcessFrom(_, _, _, _)
ProcessFrom(items, rows, start_edt, end_edt) ==
    IF rows = <<>> THEN items
    ELSE LET row == Head(rows)
             counted == RowUsable(row) /\ InRange(start_edt, SaleTime(row), end_edt)
         IN  ProcessFrom(IF counted THEN Increment(items, row.publisher) ELSE items,
                         Tail(rows), start_edt, end_edt)

ProcessSpreadsheetData(rows, start_edt, end_edt) ==
    ProcessFrom(<<>>, rows, start_edt, end_edt)

\* get_sales_from_spreadsheet, lines 213-248: the dict of the sheet, or
\* _get_mock_sales_data's empty dict when the sheet cannot be read
GetSalesIgnoringFailure(rows, readable, start_time, end_time) ==
    ProcessSpreadsheetData(rows, start_time, end_time)

\* get_sales_from_spreadsheet, lines 213-248: a response other than 200 and
\* an exception both give _get_mock_sales_data(), the empty dict
GetSalesFromSpreadsheet(rows, readable, start_time, end_time) ==
    IF readable
    THEN ProcessSpreadsheetData(rows, start_time, end_time)
    ELSE <<>>

(***************************************************************************)
(* enhance_metrics_with_accurate_cpa, lines 360-407.                       *)
(***************************************************************************)
EnhanceMetricUnguarded(m, items) ==
    [m EXCEPT !.sales_count = SalesGet(items, m.publisher_name),
              !.accurate_cpa = Div(m.payout, SalesGet(items, m.publisher_name))]

\* lines 367-380: one provider entity
EnhanceMetric(m, items) ==
    LET sales_count == SalesGet(items, m.publisher_name)
    IN  [m EXCEPT !.sales_count = sales_count,
                  !.accurate_cpa = IF sales_count > 0
                                   THEN CalculateAccurateCpa(m, sales_count)
                                   ELSE Zero]

NeedsSynthesisAlways(name, sales_count, existing_publishers) == sales_count > 0

NeedsSynthesisAboveOne(name, sales_count, existing_publishers) ==
    name \notin existing_publishers /\ sales_count > 1

\* line 385
NeedsSynthesis(name, sales_count, existing_publishers) ==
    name \notin existing_publishers /\ sales_count > 0

SynthesizeCountless(name, sales_count) == DefaultMetrics(name)

\* lines 387-402: the entity of a publisher with sales and no Ringba data
Synthesize(name, sales_count) ==
    LET new_metric == [DefaultMetrics(name) EXCEPT !.sales_count = sales_count]
    IN  IF new_metric.payout = 0 /\ sales_count > 0
        THEN [new_metric EXCEPT !.sales_display = "Sales/No$",
                                !.accurate_cpa = Zero]
        ELSE [new_metric EXCEPT
                 !.accurate_cpa = CalculateAccurateCpa(new_metric, sales_count)]

\* lines 383-404: the loop over sales_data.items()
RECURSIVE AddSalesOnly(_, _, _)
AddSalesOnly(ms, items, existing_publishers) ==
    IF items = <<>> THEN ms
    ELSE LET it == Head(items)
         IN  AddSalesOnly(
                 IF NeedsSynthesis(it.name, it.count, existing_publishers)
                 THEN Append(ms, Synthesize(it.name, it.count))
                 ELSE ms,
                 Tail(items), existing_publishers)

EnhanceMetricsDroppingUnsold(ms, items) ==
    LET enhanced == SelectSeq([i \in DOMAIN ms |-> EnhanceMetric(ms[i], items)],
                              LAMBDA m : m.sales_count > 0)
        existing_publishers == {enhanced[i].publisher_name : i \in DOMAIN enhanced}
    IN  AddSalesOnly(enhanced, items, existing_publishers)

\* enhance_metrics_with_accurate_cpa on the list and the items of the dict
EnhanceMetrics(ms, items) ==
    LET enhanced == [i \in DOMAIN ms |-> EnhanceMetric(ms[i], items)]
        existing_publishers == {enhanced[i].publisher_name : i \in DOMAIN enhanced}
    IN  AddSalesOnly(enhanced, items, existing_publishers)

(***************************************************************************)
(* calculate_totals, lines 325-358.                                        *)
(***************************************************************************)
RECURSIVE AddUp(_, _)
AddUp(t, ms) ==
    IF ms = <<>> THEN t
    ELSE LET metric == Head(ms)
         IN  AddUp([t EXCEPT
                       !.incoming = @ + metric.incoming,
                       !.live = @ + metric.live,
                       !.completed = @ + metric.completed,
                       !.ended = @ + metric.ended,
                       !.connected = @ + metric.connected,
                       !.paid = @ + metric.paid,
                       !.converted = @ + metric.converted,
                       !.no_connect = @ + metric.no_connect,
                       !.duplicate = @ + metric.duplicate,
                       !.blocked = @ + metric.blocked,
                       !.ivr_hangup = @ + metric.ivr_hangup,
                       !.revenue = @ + metric.revenue,
                       !.payout = @ + metric.payout,
                       !.profit = @ + metric.profit,
                       !.total_cost = @ + metric.total_cost,
                       !.tcl_seconds = @ + metric.tcl_seconds,
                       !.sales_count = @ + metric.sales_count],
                   Tail(ms))

TotalsAccurateCpaByCompleted(t) ==
    IF t.completed > 0 THEN Div(t.payout, t.completed) ELSE Zero

\* lines 352-356
TotalsAccurateCpa(t) ==
    IF t.sales_count > 0 THEN Div(t.payout, t.sales_count) ELSE Zero

\* lines 348-350
TotalsConversionPercent(t) ==
    IF t.incoming > 0 THEN Div(t.converted * 100, t.incoming) ELSE t.conversion_percent

CalculateTotals(ms) ==
    LET summed == AddUp(DefaultMetrics("TOTALS"), ms)
        withPercent == [summed EXCEPT !.conversion_percent = TotalsConversionPercent(summed)]
    IN  [withPercent EXCEPT !.accurate_cpa = TotalsAccurateCpa(withPercent)]

(***************************************************************************)
(* The inputs of a cycle the model draws from.                             *)
(***************************************************************************)
MaxRecords == 2
MaxSheetRows == 2

\* the local day of the modelled cycle: the Tuesday of the first week
ReconDay == 1

EmptyRecord ==
    [publisherName |-> "", callCount |-> Absent, liveCallCount |-> Absent,
     completedCalls |-> Absent, endedCalls |-> Absent,
     connectedCallCount |-> Absent, payoutCount |-> Absent,
     convertedCalls |-> Absent, nonConnectedCallCount |-> Absent,
     duplicateCalls |-> Absent, blockedCalls |-> Absent,
     incompleteCalls |-> Absent, conversionAmount |-> Absent,
     payoutAmount |-> Absent, profitGross |-> Absent,
     profitMarginGross |-> Absent, convertedPercent |-> Absent,
     callLengthInSeconds |-> Absent, avgHandleTime |-> Absent,
     totalCost |-> Absent]

\* one record per publisherName (the report is grouped by publisher)
RecordOf(name) ==
    CASE name = "Acme" ->
            [EmptyRecord EXCEPT
                !.publisherName = "Acme", !.callCount = Num(2000),
                !.liveCallCount = Num(100), !.completedCalls = Num(1000),
                !.endedCalls = Num(1900), !.connectedCallCount = Num(1200),
                !.payoutCount = Num(800), !.convertedCalls = Num(500),
                !.nonConnectedCallCount = Num(300), !.duplicateCalls = Num(200),
                !.blockedCalls = Num(100), !.incompleteCalls = Num(400),
                !.conversionAmount = Num(15000), !.payoutAmount = Num(10000),
                !.profitGross = Num(5000), !.profitMarginGross = Pct(3333),
                !.convertedPercent = Pct(2500),
                !.callLengthInSeconds = Num(360000), !.avgHandleTime = Num(18000),
                !.totalCost = Num(1250)]
      [] name = "Beta" ->
            [EmptyRecord EXCEPT
                !.publisherName = "Beta", !.callCount = Num(350),
                !.completedCalls = Num(0), !.endedCalls = Num(300),
                !.payoutAmount = Num(500), !.conversionAmount = BadValue,
                !.profitGross = Num(-500), !.convertedPercent = Num(0),
                !.callLengthInSeconds = Num(4550), !.payoutCount = Pct(100)]
      [] name = "MISSING" ->
            [EmptyRecord EXCEPT
                !.publisherName = "MISSING", !.callCount = Num(8800),
                !.completedCalls = Num(7600), !.payoutAmount = Num(68000)]
      [] name = "missing" ->
            [EmptyRecord EXCEPT
                !.publisherName = "missing", !.callCount = Num(100),
                !.completedCalls = Num(100), !.payoutAmount = Num(900)]
      [] name = "unknown" ->
            [EmptyRecord EXCEPT
                !.publisherName = "unknown", !.callCount = Num(400),
                !.completedCalls = Num(300), !.convertedCalls = Num(100),
                !.payoutAmount = Num(2000), !.conversionAmount = Num(2500)]
      [] OTHER ->
            [EmptyRecord EXCEPT
                !.publisherName = name, !.callCount = Num(700),
                !.completedCalls = Num(200), !.convertedCalls = Num(100),
                !.payoutAmount = Num(3300), !.conversionAmount = Num(4000),
                !.profitGross = Num(700)]

RawNames == {"Acme", "Beta", "", "  ", "MISSING", "missing", "unknown"}

\* the record lists: up to MaxRecords records of different publishers
RECURSIVE SeqsUpTo(_, _)
SeqsUpTo(S, n) ==
    IF n = 0 THEN {<<>>}
    ELSE SeqsUpTo(S, n - 1)
         \cup {Append(q, x) : q \in {r \in SeqsUpTo(S, n - 1) : Len(r) = n - 1}, x \in S}

RecordLists ==
    {[i \in DOMAIN names |-> RecordOf(names[i])] :
        names \in {q \in SeqsUpTo(RawNames, MaxRecords) :
                      \A i, j \in DOMAIN q : i # j => q[i] # q[j]}}

OnDay(h, m, sec, ampm) ==
    [date |-> [k |-> "mdy", day |-> ReconDay],
     time |-> [k |-> "hms", h |-> h, m |-> m, s |-> sec, ampm |-> ampm]]

SheetRow(publisher, dt) ==
    [publisher |-> publisher, date |-> dt.date, time |-> dt.time]

SheetRows ==
    { SheetRow("Acme", OnDay(9, 0, 0, "AM")),
      SheetRow("Acme", OnDay(11, 0, 30, "AM")),
      SheetRow("Beta", OnDay(4, 59, 59, "PM")),
      SheetRow("Gamma", OnDay(10, 59, 59, "AM")),
      SheetRow("Not Found", OnDay(10, 0, 0, "AM")),
      SheetRow("Unknown Publisher", OnDay(10, 30, 0, "AM")),
      [publisher |-> "Beta", date |-> [k |-> "nan", day |-> 0],
       time |-> [k |-> "hms", h |-> 10, m |-> 0, s |-> 0, ampm |-> "AM"]] }

SheetLists == SeqsUpTo(SheetRows, MaxSheetRows)

\* the clocks of the cycles of the 11:00, the 17:05 and the 21:00 slot of
\* the day
CycleClocks ==
    {FromEDT(ReconDay * Day + 11 * Hour),
     FromEDT(ReconDay * Day + 17 * Hour + 5 * Minute),
     FromEDT(ReconDay * Day + 21 * Hour)}

\* the windows of these cycles
CycleWindows ==
    {[start |-> CycleWindow(t).start, end |-> CycleWindow(t).end] :
        t \in CycleClocks}

\* dt.strftime('%Y-%m-%d %H:%M') of an aware datetime in UTC: the fields of
\* its own (UTC) wall clock
Strftime(dt) == [date |-> DateOf(dt), hour |-> HourOf(dt), minute |-> MinuteOf(dt)]

\* lines 420 and 510: time_range, "<start> - <end> EDT"
TimeRange(start_time, end_time) ==
    [from |-> Strftime(start_time), to |-> Strftime(end_time), zone |-> "EDT"]

\* sorted(metrics_2hour, key=lambda x: x.completed, reverse=True): a stable
\* sort, entities of equal completed keep their order
RECURSIVE InsertByCompleted(_, _)
InsertByCompleted(sorted, metric) ==
    IF sorted = <<>> THEN <<metric>>
    ELSE IF Head(sorted).completed >= metric.completed
    THEN <<Head(sorted)>> \o InsertByCompleted(Tail(sorted), metric)
    ELSE <<metric>> \o sorted

RECURSIVE SortedByCompleted(_)
SortedByCompleted(ms) ==
    IF ms = <<>> THEN <<>>
    ELSE InsertByCompleted(SortedByCompleted(SubSeq(ms, 1, Len(ms) - 1)),
                           ms[Len(ms)])

\* lines 469-476: the table of all publishers of the 2-hour summary, one
\* line each
PublisherTable(ms) ==
    [i \in DOMAIN ms |->
        LET metric == SortedByCompleted(ms)[i]
        IN  [publisher_name |-> metric.publisher_name,
             completed |-> metric.completed,
             sales_count |-> metric.sales_count,
             cpa_display |-> IF metric.sales_display # ""
                             THEN [text |-> metric.sales_display]
                             ELSE [amount |-> metric.accurate_cpa]]]

\* lines 561-562: the table of all publishers of the end-of-day summary;
\* its CPA column is PublisherMetrics.cpa
EndOfDayTable(ms) ==
    [i \in DOMAIN ms |->
        LET metric == SortedByCompleted(ms)[i]
        IN  [publisher_name |-> metric.publisher_name,
             completed |-> metric.completed,
             cpa |-> Cpa(metric)]]

\* the message of send_slack_summary (lines 422-486)
SlackSummary(ms, start_time, end_time) ==
    [kind |-> "2-hour", time_range |-> TimeRange(start_time, end_time),
     start |-> start_time, end |-> end_time, table |-> PublisherTable(ms)]

\* the message of send_end_of_day_summary (lines 512-607)
EndOfDaySummary(ms, start_time, end_time) ==
    [kind |-> "end-of-day", time_range |-> TimeRange(start_time, end_time),
     start |-> start_time, end |-> end_time, table |-> EndOfDayTable(ms)]

NoWindow == [start |-> 0, end |-> 0]

NoTotals == DefaultMetrics("")

ReconInit ==
    /\ rstage = "start"
    /\ cycle_now = 0
    /\ delivered = <<>>
    /\ outbox = <<>>
    /\ records = <<>>
    /\ parsed = <<>>
    /\ sheet = <<>>
    /\ sheet_ok = FALSE
    /\ window = NoWindow
    /\ sales_data = <<>>
    /\ metrics = <<>>
    /\ totals = NoTotals

\* a cycle's window (run_monitoring_cycle, lines 668-670) and
\* _parse_ringba_data on the records of the Ringba response
FetchRingba ==
    /\ rstage = "start"
    /\ cycle_now' \in CycleClocks
    /\ window' = [start |-> CycleWindow(cycle_now').start,
                  end |-> CycleWindow(cycle_now').end]
    /\ records' \in RecordLists
    /\ parsed' = ParseRingbaData(records')
    /\ rstage' = "parsed"
    /\ UNCHANGED <<sheet, sheet_ok, sales_data, metrics, totals, delivered, outbox>>

\* line 364: the sheet as it is when the cycle reads it, or a read that fails
FetchSales ==
    /\ rstage = "parsed"
    /\ sheet' \in SheetLists
    /\ sheet_ok' \in BOOLEAN
    /\ sales_data' = GetSalesFromSpreadsheet(sheet', sheet_ok',
                                             window.start, window.end)
    /\ rstage' = "sales"
    /\ UNCHANGED <<cycle_now, records, parsed, window, metrics, totals, delivered,
                   outbox>>

\* lines 366-407
Enhance ==
    /\ rstage = "sales"
    /\ metrics' = EnhanceMetrics(parsed, sales_data)
    /\ rstage' = "merged"
    /\ UNCHANGED <<cycle_now, records, parsed, sheet, sheet_ok, window, sales_data,
                   totals, delivered, outbox>>

\* the calculate_totals call of the summary (lines 417 and 507)
Totals ==
    /\ rstage = "merged"
    /\ totals' = CalculateTotals(metrics)
    /\ rstage' = "done"
    /\ UNCHANGED <<cycle_now, records, parsed, sheet, sheet_ok, window, sales_data,
                   metrics, delivered, outbox>>

\* lines 679-691: the one message of the cycle, by report_type: the
\* end-of-day summary or the 2-hour summary, each built from the cycle's
\* metrics_2hour, start_time and end_time.  Nothing is sent when the Ringba
\* list is empty (line 691); a post that fails is logged and dropped
\* (lines 496-497 and 617-618).
Deliver ==
    /\ rstage = "done"
    /\ outbox' =
           IF parsed = <<>>
           THEN <<>>
           ELSE IF CycleWindow(cycle_now).report_type = "end-of-day"
           THEN <<EndOfDaySummary(metrics, window.start, window.end)>>
           ELSE <<SlackSummary(metrics, window.start, window.end)>>
    /\ \E posted \in BOOLEAN :
           delivered' = IF posted THEN outbox' ELSE <<>>
    /\ rstage' = "reported"
    /\ UNCHANGED <<cycle_now, records, parsed, sheet, sheet_ok, window, sales_data,
                   metrics, totals>>

(***************************************************************************)
(* The specifications.                                                     *)
(***************************************************************************)
vars == <<ingestVars, schedVars, reconVars>>

\* the values of the variables of a part that is not running
IngestIdle == IngestInit

SchedIdle ==
    /\ now = 0
    /\ next_run = 0
    /\ spc = "off"
    /\ wake = NoWake
    /\ windows = <<>>

ReconIdle == ReconInit

Init == IngestInit /\ SchedIdle /\ ReconIdle

Next ==
    \/ UNCHANGED <<schedVars, reconVars>> /\ \E h \in Handlers : \E c \in CallIds \cup {NoCallId} : Receive(h, c)
    \/ UNCHANGED <<schedVars, reconVars>> /\ \E h \in Handlers : HandlerResume(h)
    \/ UNCHANGED <<schedVars, reconVars>> /\ \E h \in Handlers : CheckRequest(h)
    \/ UNCHANGED <<schedVars, reconVars>> /\ \E h \in Handlers : HandlerAcquire(h)
    \/ UNCHANGED <<schedVars, reconVars>> /\ \E h \in Handlers : Enqueue(h)
    \/ UNCHANGED <<schedVars, reconVars>> /\ \E h \in Handlers : EmergencyWrite(h)
    \/ UNCHANGED <<schedVars, reconVars>> /\ \E h \in Handlers : HandlerRelease(h)
    \/ UNCHANGED <<schedVars, reconVars>> /\ \E h \in Handlers : MarkProcessed(h)
    \/ UNCHANGED <<schedVars, reconVars>> /\ WriterResume
    \/ UNCHANGED <<schedVars, reconVars>> /\ WriterAcquire
    \/ UNCHANGED <<schedVars, reconVars>> /\ WriterDrain
    \/ UNCHANGED <<schedVars, reconVars>> /\ WriterWrite
    \/ UNCHANGED <<schedVars, reconVars>> /\ WriterRelease

Spec == Init /\ [][Next]_vars

\* the steps of the tasks the event loop has already started: handlers past
\* their first line and background_writer.  The loop runs every task that
\* is ready, and the sleep of line 220 ends; when requests arrive is up to
\* the callers.
TaskStep ==
    \/ \E h \in Handlers : HandlerResume(h)
    \/ \E h \in Handlers : CheckRequest(h)
    \/ \E h \in Handlers : HandlerAcquire(h)
    \/ \E h \in Handlers : Enqueue(h)
    \/ \E h \in Handlers : EmergencyWrite(h)
    \/ \E h \in Handlers : HandlerRelease(h)
    \/ \E h \in Handlers : MarkProcessed(h)
    \/ WriterResume
    \/ WriterAcquire
    \/ WriterDrain
    \/ WriterWrite
    \/ WriterRelease

\* the ingestion service under a fair event loop
LiveSpec == Spec /\ WF_ingestVars(TaskStep)

SchedSpecInit == SchedInit /\ IngestIdle /\ ReconIdle

SchedSpecNext ==
    \/ UNCHANGED <<ingestVars, reconVars>> /\ Sleep
    \/ UNCHANGED <<ingestVars, reconVars>> /\ Decide
    \/ UNCHANGED <<ingestVars, reconVars>> /\ RunCycle

SchedSpec == SchedSpecInit /\ [][SchedSpecNext]_vars

\* the data path of a cycle, alone
ReconSpecInit == ReconInit /\ IngestIdle /\ SchedIdle

ReconSpecNext ==
    \/ UNCHANGED <<ingestVars, schedVars>> /\ FetchRingba
    \/ UNCHANGED <<ingestVars, schedVars>> /\ FetchSales
    \/ UNCHANGED <<ingestVars, schedVars>> /\ Enhance
    \/ UNCHANGED <<ingestVars, schedVars>> /\ Totals
    \/ UNCHANGED <<ingestVars, schedVars>> /\ Deliver

ReconSpec == ReconSpecInit /\ [][ReconSpecNext]_vars

(***************************************************************************)
(* Claims about the ingestion service (checked under Spec).                *)
(***************************************************************************)
RowsFor(c) == CountIn(queue, c) + sink[c]

\* every response for call_id c has been sent
AllAnswered(c) == accepted[c] + dups[c] = submits[c]

\* C1: for every call_id, once the same event has been submitted twice (or
\* more) and every submission has returned, exactly one submission was
\* answered "queued" and the others "duplicate", there is exactly one
\* processed record (one mark_processed) and exactly one row for the call_id
\* in the union of the in-memory queue and the downstream sheet.
C1_IdempotentIngestion ==
    running = NoTask =>
        \A c \in CallIds :
            (submits[c] >= 2 /\ AllAnswered(c)) =>
                /\ accepted[c] = 1
                /\ dups[c] = submits[c] - 1
                /\ c \in processed
                /\ markCalls[c] = 1
                /\ RowsFor(c) = 1

\* C2: the concatenation of all drained batches, followed by what is still
\* queued, is exactly the sequence of rows accepted into the queue: every
\* accepted row is drained at most once, none is lost, none is duplicated.
C2_NoDoubleDrain ==
    /\ drained \o queue = enqueued
    /\ wpc = "write" =>
           /\ batch # <<>>
           /\ Len(batch) <= Len(drained)
           /\ batch = SubSeq(drained, Len(drained) - Len(batch) + 1, Len(drained))

\* a second batch has been drained while a row accepted meanwhile remains
C2_Witness ==
    /\ Len(drained) > FlushBatch
    /\ queue # <<>>
    /\ wpc = "sleep"

\* C4: a submit that found the queue full and has returned left its row in
\* the downstream sheet, not in the queue, and its call_id marked processed
\* exactly once, whatever the outcome of the append.
C4_WriteThroughRecorded ==
    \A c \in CallIds :
        writeThrough[c] > 0 =>
            /\ CountIn(enqueued, c) = 0
            /\ sink[c] = 1
            /\ c \in processed
            /\ markCalls[c] = 1

(***************************************************************************)
(* Claims about the reporting loop (checked under SchedSpec).              *)
(***************************************************************************)
\* the loop has woken up and has decided what to do
Decided == wake.outcome \in {"cycle", "skip"}

IsNinePmTrigger(t) == HourOf(ToEDT(t)) = 21 /\ MinuteOf(ToEDT(t)) = 0

\* C3: on a business day (Monday to Saturday), a wake-up at the 21:00
\* trigger runs a cycle, and that cycle is the end-of-day one.
C3_NinePmTriggerRuns ==
    (/\ Decided
     /\ IsNinePmTrigger(wake.trigger)
     /\ Weekday(ToEDT(wake.trigger)) < 6)
        => (wake.outcome = "cycle" /\ wake.report_type = "end-of-day")

SettlingBuffer == report_minutes[4] * Minute

\* the window [15:00, 17:05) of the 17:05 cycle
IsBuffered(w) == MinuteOf(ToEDT(w.end)) # 0

C10_NextReportStrictlyLater ==
    /\ GetNextReportTime(now) > now
    /\ spc = "wait" =>
        /\ next_run = GetNextReportTime(now)
        /\ next_run > now
        /\ Decided => next_run > wake.trigger

\* a cycle that took no time has just ended at the very instant of the
\* 17:05 trigger
C10_Witness ==
    /\ spc = "wait"
    /\ wake.outcome = "cycle"
    /\ now = wake.trigger
    /\ HourOf(ToEDT(now)) = 17
    /\ MinuteOf(ToEDT(now)) = 5

(***************************************************************************)
(* Claims about the data path of a cycle (checked under ReconSpec).        *)
(***************************************************************************)
SalesFetched == rstage \in {"sales", "merged", "done"}

Merged == rstage \in {"merged", "done"}

\* the rows of publisher p a half-open window [start, end) holds
RowsInWindow(rows, p, start, end) ==
    {i \in DOMAIN rows :
        /\ RowUsable(rows[i])
        /\ rows[i].publisher = p
        /\ InRangeHalfOpen(start, SaleTime(rows[i]), end)}

SheetPublishers == {sheet[i].publisher : i \in DOMAIN sheet}

\* C6: when the sheet could be read, the count of every publisher is the
\* number of its rows whose reconstructed timestamp t satisfies
\* start <= t < end; a row at the window end is not counted.
C6_CountsHalfOpenWindow ==
    (SalesFetched /\ sheet_ok) =>
        \A p \in SheetPublishers :
            SalesGet(sales_data, p)
                = Cardinality(RowsInWindow(sheet, p, window.start, window.end))

\* the "missing" sentinel, whatever its case
IsSentinel(raw_name) == Lower(raw_name) = "missing"

KeptRecords == SelectSeq(records, LAMBDA r : ~IsSentinel(r.publisherName))

\* C7: the merged list has an entity for every name of the sales mapping,
\* carrying that name's count, and keeps every provider entity, in place
\* and with its provider figures; the provider entities are exactly the
\* records whose publisherName is not the "missing" sentinel.
C7_MergeComplete ==
    Merged =>
        /\ \A i \in DOMAIN sales_data :
              \E j \in DOMAIN metrics :
                  /\ metrics[j].publisher_name = sales_data[i].name
                  /\ metrics[j].sales_count = sales_data[i].count
        /\ Len(parsed) = Len(KeptRecords)
        /\ Len(metrics) >= Len(parsed)
        /\ \A i \in DOMAIN parsed :
              /\ parsed[i] = ParseRecord(KeptRecords[i])
              /\ [metrics[i] EXCEPT !.sales_count = 0, !.accurate_cpa = Zero]
                     = parsed[i]

\* a sentinel record was dropped, a provider entity was enriched with its
\* sales and a publisher known to the sheet alone was synthesized
C7_Witness ==
    /\ rstage = "merged"
    /\ Len(parsed) < Len(records)
    /\ Len(metrics) > Len(parsed)
    /\ \E i \in DOMAIN parsed : metrics[i].sales_count > 0

SummedFields ==
    {"incoming", "live", "completed", "ended", "connected", "paid",
     "converted", "no_connect", "duplicate", "blocked", "ivr_hangup",
     "revenue", "payout", "profit", "total_cost", "tcl_seconds",
     "sales_count"}

RECURSIVE SumField(_, _)
SumField(ms, f) ==
    IF ms = <<>> THEN 0 ELSE Head(ms)[f] + SumField(Tail(ms), f)

\* a + b
Plus(a, b) == Div(a.n * b.d + b.n * a.d, a.d * b.d)

RECURSIVE SumAccurateCpa(_)
SumAccurateCpa(ms) ==
    IF ms = <<>> THEN Zero
    ELSE Plus(Head(ms).accurate_cpa, SumAccurateCpa(Tail(ms)))

\* the average of the entities' accurate_cpa
AverageAccurateCpa(ms) ==
    LET total == SumAccurateCpa(ms)
    IN  Div(total.n, total.d * Len(ms))

\* C8: every summed field of the totals is the sum of that field over the
\* list, and the totals' accurate_cpa is the summed payout over the summed
\* sales_count, 0 when there are no sales.
C8_TotalsAreSums ==
    rstage = "done" =>
        /\ \A f \in SummedFields : totals[f] = SumField(metrics, f)
        /\ totals.accurate_cpa
              = IF SumField(metrics, "sales_count") = 0
                THEN Zero
                ELSE Div(SumField(metrics, "payout"),
                         SumField(metrics, "sales_count"))

\* totals over several entities with sales, where the quotient of the sums
\* is not the average of the entities' quotients
C8_Witness ==
    /\ rstage = "done"
    /\ Len(metrics) > 1
    /\ totals.sales_count > 1
    /\ totals.payout > 0
    /\ totals.accurate_cpa # AverageAccurateCpa(metrics)

ZeroGuarded(m) ==
    /\ m.sales_count = 0 => m.accurate_cpa = Zero
    /\ m.completed = 0 => Cpa(m) = Zero
    /\ m.accurate_cpa # DivisionError
    /\ Cpa(m) # DivisionError

\* C9: for every entity of the merged list and for the totals, no sales
\* means an accurate_cpa of 0 and no completed calls means a cpa of 0;
\* neither quotient is ever a division by zero.
C9_CpaZeroGuard ==
    /\ Merged => \A i \in DOMAIN metrics : ZeroGuarded(metrics[i])
    /\ rstage = "done" => ZeroGuarded(totals)

\* an entity, and totals, with a payout and neither sales nor completed
\* calls
C9_Witness ==
    /\ rstage = "done"
    /\ \E i \in DOMAIN metrics :
          /\ metrics[i].payout > 0
          /\ metrics[i].sales_count = 0
          /\ metrics[i].completed = 0
    /\ totals.payout > 0
    /\ totals.sales_count = 0
    /\ totals.completed = 0

(***************************************************************************)
(* Claims about the timetable and the loop (checked under SchedSpec).      *)
(***************************************************************************)
\* the local datetime of day d at h:m
LocalAt(d, h, m) == d * Day + h * Hour + m * Minute

IsSaturdayEightPm(t) ==
    /\ Weekday(ToEDT(t)) = 5
    /\ ToEDT(t) % Day = 20 * Hour

\* C11: for now = Saturday 20:00 local, get_next_report_time returns
\* Monday 11:00 local.
C11_SaturdayEightPmToMonday ==
    IsSaturdayEightPm(now) =>
        GetNextReportTime(now) = FromEDT(LocalAt(DateOf(ToEDT(now)) + 2, 11, 0))

\* C11, amended: for now = Saturday 20:00 local the result is Saturday
\* 21:00, the last slot of the timetable; from Saturday 21:00 on it is
\* Monday 11:00.
C11_SaturdayEveningTrigger ==
    LET l == ToEDT(now)
    IN  /\ IsSaturdayEightPm(now) =>
              GetNextReportTime(now) = FromEDT(LocalAt(DateOf(l), 21, 0))
        /\ (Weekday(l) = 5 /\ l % Day >= 21 * Hour) =>
              GetNextReportTime(now) = FromEDT(LocalAt(DateOf(l) + 2, 11, 0))

\* the service is started on a Saturday at 20:00 local
C11_Witness ==
    /\ IsSaturdayEightPm(now)
    /\ spc = "wait"
    /\ wake = NoWake
    /\ next_run = now + Hour

\* the timetable, as local seconds of the day
SlotSeconds == {11 * Hour, 13 * Hour, 15 * Hour, 17 * Hour + 5 * Minute,
                19 * Hour, 21 * Hour}

NextNonSunday(d) == IF (d + 1) % 7 = 6 THEN d + 2 ELSE d + 1

\* C12: the instant get_next_report_time returns never falls on a Sunday;
\* on a Sunday, or when no slot of today is left, it is 11:00 of the next
\* day that is not a Sunday.
C12_NeverOnSunday ==
    LET l == ToEDT(now)
        r == ToEDT(GetNextReportTime(now))
        noneLeft == \A sec \in SlotSeconds : sec <= l % Day
    IN  /\ Weekday(r) # 6
        /\ (Weekday(l) = 6 \/ noneLeft) =>
               r = LocalAt(NextNonSunday(DateOf(l)), 11, 0)

\* the window of the last cycle
LastWindow == windows[Len(windows)]

\* C13: a cycle woken by the trigger at T fetches [T - 2h, T), the cycle of
\* the 17:00 slot is woken at 17:05 and fetches [15:00, 17:05); at the
\* clock of a 21:00 wake-up the window selection gives [19:00, 21:00).
C13_WindowOfTrigger ==
    LET T == wake.trigger
        day == DateOf(ToEDT(T))
    IN  /\ wake.outcome = "cycle" =>
              /\ wake.report_type # "none"
              /\ windows # <<>>
              /\ ToEDT(T) % Day \in SlotSeconds
              /\ IF HourOf(ToEDT(T)) = 17
                 THEN /\ LastWindow.start = FromEDT(LocalAt(day, 15, 0))
                      /\ LastWindow.end = FromEDT(LocalAt(day, 17, 5))
                      /\ LastWindow.end = T
                 ELSE /\ LastWindow.start = T - 2 * Hour
                      /\ LastWindow.end = T
        /\ (Decided /\ IsNinePmTrigger(T)) =>
              /\ CycleWindow(wake.at).start = T - 2 * Hour
              /\ CycleWindow(wake.at).end = T
              /\ CycleWindow(wake.at).report_type = "end-of-day"

\* the 17:05 cycle, woken a little after its trigger, has run
C13_Witness ==
    /\ wake.outcome = "cycle"
    /\ HourOf(ToEDT(wake.trigger)) = 17
    /\ MinuteOf(ToEDT(wake.trigger)) = 5
    /\ wake.at > wake.trigger
    /\ LastWindow.end = wake.trigger

\* C16: a cycle executes at or after the end of the window it fetches.
C16_WindowClosedAtTrigger ==
    wake.outcome = "cycle" =>
        /\ windows # <<>>
        /\ LastWindow.end <= wake.trigger
        /\ LastWindow.end <= wake.at

\* the 17:05 cycle runs at the very instant its window ends
C16_Witness ==
    /\ wake.outcome = "cycle"
    /\ MinuteOf(ToEDT(wake.at)) = 5
    /\ wake.at = LastWindow.end

\* C17: after a cycle that raised, the loop waits the cooldown before it
\* recomputes the next trigger.
C17_CooldownAfterFailure ==
    (wake.outcome = "cycle" /\ wake.raised) =>
        wake.scheduled >= wake.ended + Cooldown

\* Monday to Saturday, local hour in [9, 21), by the local second
Operating(t) ==
    LET l == t - 4 * Hour
    IN  /\ (l \div Day) % 7 \in 0..5
        /\ l % Day >= 9 * Hour
        /\ l % Day < 21 * Hour

\* C18: a wake-up runs a cycle only in business hours and otherwise skips
\* it and recomputes the next trigger at once; no cycle starts or ends on a
\* Sunday or outside the local hours [9, 21).
C18_CycleOnlyInBusinessHours ==
    /\ spc = "cycle" => Operating(now)
    /\ wake.outcome = "cycle" =>
          /\ Operating(wake.at)
          /\ Operating(wake.ended)
    /\ wake.outcome = "skip" =>
          /\ ~Operating(wake.at)
          /\ wake.scheduled = wake.at
          /\ spc = "wait" => (now = wake.at /\ next_run = GetNextReportTime(wake.at))

\* a wake-up at a Sunday slot was skipped
C18_Witness ==
    /\ wake.outcome = "skip"
    /\ Weekday(ToEDT(wake.at)) = 6
    /\ HourOf(ToEDT(wake.at)) = 11

\* the days the model's clock can be on
LocalDays == (0 - 1)..(HorizonDays + 2)

Reported == rstage = "reported" /\ delivered # <<>>

\* the local day of the cycle
CycleDay == DateOf(ToEDT(cycle_now))

\* C14: the cycle of the 21:00 slot delivers the 2-hour report for
\* [19:00, 21:00) and, as a message of its own, the end-of-day summary,
\* which covers [09:00, 21:00) of the same day.
C14_EndOfDayCoversDay ==
    (Reported /\ HourOf(ToEDT(cycle_now)) = 21) =>
        /\ \E i \in DOMAIN delivered :
              /\ delivered[i].kind = "2-hour"
              /\ delivered[i].start = FromEDT(LocalAt(CycleDay, 19, 0))
              /\ delivered[i].end = FromEDT(LocalAt(CycleDay, 21, 0))
        /\ \E j \in DOMAIN delivered :
              /\ delivered[j].kind = "end-of-day"
              /\ delivered[j].start = FromEDT(LocalAt(CycleDay, 9, 0))
              /\ delivered[j].end = FromEDT(LocalAt(CycleDay, 21, 0))

\* C15: the message of the 17:05 cycle is built from the window ending at
\* 17:05, and the time range it shows reads 15:00 - 17:00.
C15_BufferNotInLabel ==
    (Reported /\ HourOf(ToEDT(cycle_now)) = 17) =>
        \A i \in DOMAIN delivered :
            /\ delivered[i].end = FromEDT(LocalAt(CycleDay, 17, 5))
            /\ delivered[i].time_range.from = [date |-> CycleDay, hour |-> 15, minute |-> 0]
            /\ delivered[i].time_range.to = [date |-> CycleDay, hour |-> 17, minute |-> 0]

(***************************************************************************)
(* Further claims about the ingestion service (checked under Spec).        *)
(***************************************************************************)
\* handler h is past the duplicate check and on its way to mark_processed
PastDuplicateCheck(h) == hpc[h] \notin {"idle", "body", "parsed"}

\* handler h takes its step from the duplicate check, with a call_id that
\* is in processed_calls
DuplicateStep(h) ==
    /\ running = h
    /\ hpc[h] = "parsed"
    /\ hreq[h] \in processed
    /\ hpc'[h] # hpc[h]

\* C20: a submit whose call_id is in processed_calls answers "duplicate"
\* and does nothing else: the queue, the sheet, the table and the lock are
\* as they were, and no handler goes past the check with such a call_id.
C20_DuplicateHasNoEffect ==
    /\ [](\A h \in Handlers : PastDuplicateCheck(h) => hreq[h] \notin processed)
    /\ [][\A h \in Handlers :
             DuplicateStep(h) =>
                 /\ hpc'[h] = "idle"
                 /\ dups'[hreq[h]] = dups[hreq[h]] + 1
                 /\ UNCHANGED <<queue, sink, processed, lock, batch, enqueued,
                                drained, accepted, markCalls, writeThrough,
                                errors>>]_vars

\* a re-delivery was answered "duplicate" while its row is in the sheet and
\* another row waits in the queue
C20_Witness ==
    \E c \in CallIds :
        /\ dups[c] > 0
        /\ c \in processed
        /\ sink[c] = 1
        /\ queue # <<>>

\* C21: the queue never holds more than MAX_QUEUE_SIZE rows.
C21_QueueBounded == Len(queue) <= MAX_QUEUE_SIZE

\* the queue is full and a submit that found it full has been written
\* through and has returned
C21_Witness ==
    /\ Len(queue) = MAX_QUEUE_SIZE
    /\ \E c \in CallIds : writeThrough[c] > 0

\* a downstream write is in progress: the flush's batch write, or the
\* write-through of handler h
FlushWriting == wpc = "write"

WritingThrough(h) == hpc[h] = "emergency"

\* C22: the lock is never held while a downstream write is in progress, so
\* a submit never waits for a downstream write.
C22_NoWriteUnderLock ==
    /\ FlushWriting => lock # Writer
    /\ \A h \in Handlers : WritingThrough(h) => lock # h

\* C25: a request without call_id is answered with a client error (400),
\* never with a server error.
C25_MissingCallIdIsClientError == errors = 0

\* C29: the queue and the processed set change only while the lock is held.
C29_MutationsUnderLock ==
    [][/\ queue' # queue => lock # NoTask
       /\ processed' # processed => lock # NoTask]_vars

\* handler h has put its row away (in the queue or through to the sheet)
\* and has not yet marked its call_id
BetweenAppendAndMark(h) == hpc[h] \in {"unlock", "unlock_wt", "mark", "mark_wt"}

\* C29, amended: the queue changes only under the lock, held by the running
\* task; the processed set is changed by a handler after it has released
\* the lock, in the same uninterrupted run in which it put its row away, so
\* that no other submit or drain takes a step between the two.
C29_AppendAndMarkAtomic ==
    /\ [](\A h \in Handlers : BetweenAppendAndMark(h) => running = h)
    /\ [][/\ queue' # queue => (lock # NoTask /\ lock = running)
          /\ processed' # processed =>
                /\ lock = NoTask
                /\ \E h \in Handlers :
                      /\ running = h
                      /\ hpc[h] \in {"mark", "mark_wt"}
                      /\ processed' = processed \cup {hreq[h]}]_vars

\* a handler has appended its row and released the lock, and is about to
\* mark its call_id
C29_Witness ==
    \E h \in Handlers :
        /\ hpc[h] = "mark"
        /\ lock = NoTask
        /\ CountIn(queue, hreq[h]) = 1
        /\ hreq[h] \notin processed

\* the rows of call_id c that can still reach the sheet or are in it
Recoverable(c) ==
    CountIn(queue, c) + (IF wpc = "write" THEN CountIn(batch, c) ELSE 0) + sink[c]

\* C30: once a submit of c has been answered "queued", a row of c is in the
\* queue, in a batch being written, or in the sheet.
C30_AcceptedStaysRecoverable ==
    \A c \in CallIds : accepted[c] > 0 => Recoverable(c) >= 1

(***************************************************************************)
(* Claims about the parse, the sheet failure and the synthesized entities  *)
(* (checked under ReconSpec).                                               *)
(***************************************************************************)
\* the spellings of the sentinel among the publisherName values
SentinelSpellings == {"MISSING", "Missing", "missing"}

\* a publisherName that is absent, empty or white space
IsBlank(raw_name) == raw_name \in {"", "  "}

NonSentinelRecords ==
    SelectSeq(records, LAMBDA r : r.publisherName \notin SentinelSpellings)

\* C26: _parse_ringba_data drops the records whose publisherName is
\* "missing" in any letter case and no other record; the records it keeps
\* stay in order with their figures, and a blank or absent publisherName is
\* kept under the label "Unknown Publisher".
C26_ParseDropsOnlySentinel ==
    rstage # "start" =>
        /\ Len(parsed) = Len(NonSentinelRecords)
        /\ \A i \in DOMAIN parsed :
              LET row == NonSentinelRecords[i]
              IN  /\ parsed[i].incoming = SafeInt(row.callCount)
                  /\ parsed[i].completed = SafeInt(row.completedCalls)
                  /\ parsed[i].payout = SafeFloat(row.payoutAmount)
                  /\ IsBlank(row.publisherName)
                        => parsed[i].publisher_name = "Unknown Publisher"
                  /\ row.publisherName \in {"Acme", "Beta"}
                        => parsed[i].publisher_name = row.publisherName

\* a lower-case sentinel record was dropped and a white-space name was kept
C26_Witness ==
    /\ rstage = "parsed"
    /\ \E i \in DOMAIN records : records[i].publisherName = "missing"
    /\ \E i \in DOMAIN records : records[i].publisherName = "  "
    /\ Len(parsed) = 1
    /\ parsed[1].publisher_name = "Unknown Publisher"

\* the merge has run
AfterMerge == rstage \in {"merged", "done", "reported"}

ProviderNames == {parsed[i].publisher_name : i \in DOMAIN parsed}

SalesOnlyNames ==
    {sales_data[i].name : i \in DOMAIN sales_data} \ ProviderNames

\* the entity the spec describes for a name of the sales mapping alone:
\* every call and payout field zero, the mapping's count, accurate_cpa 0.0
SalesOnlyEntity(name, count) ==
    [DefaultMetrics(name) EXCEPT !.sales_count = count]

\* provider [Acme: completed 10, payout 100.00] and sales {Acme: 4, Beta: 1}
ExampleProvider ==
    <<[DefaultMetrics("Acme") EXCEPT !.completed = 10, !.payout = 100 * 100]>>

ExampleSales ==
    <<[name |-> "Acme", count |-> 4], [name |-> "Beta", count |-> 1]>>

ExampleMerged == EnhanceMetrics(ExampleProvider, ExampleSales)

\* C27: for every name of the sales mapping that no provider entity
\* carries, the merged list has exactly one entity of that name, appended
\* after the provider entities, with every call and payout field zero,
\* the mapping's count as sales_count and accurate_cpa 0; nothing else is
\* appended.  The example of the spec gives Acme an accurate_cpa of 25.00
\* and a synthesized Beta with completed 0, payout 0, sales_count 1 and
\* accurate_cpa 0.
C27_SynthesizedForSalesOnly ==
    /\ AfterMerge =>
          /\ Len(metrics) = Len(parsed) + Cardinality(SalesOnlyNames)
          /\ \A i \in DOMAIN sales_data :
                sales_data[i].name \notin ProviderNames =>
                    /\ Cardinality({j \in DOMAIN metrics :
                           metrics[j].publisher_name = sales_data[i].name}) = 1
                    /\ \E j \in DOMAIN metrics :
                          /\ j > Len(parsed)
                          /\ [metrics[j] EXCEPT !.sales_display = ""]
                                = SalesOnlyEntity(sales_data[i].name,
                                                  sales_data[i].count)
    /\ Len(ExampleMerged) = 2
    /\ ExampleMerged[1].publisher_name = "Acme"
    /\ ExampleMerged[1].accurate_cpa = [n |-> 25 * 100, d |-> 1]
    /\ [ExampleMerged[2] EXCEPT !.sales_display = ""] = SalesOnlyEntity("Beta", 1)

\* a cycle with provider entities whose sheet names a publisher Ringba did
\* not report
C27_Witness ==
    /\ rstage = "done"
    /\ parsed # <<>>
    /\ SalesOnlyNames # {}
    /\ metrics[Len(metrics)].publisher_name \in SalesOnlyNames

\* the sheet was asked for
AfterSales == rstage \in {"sales", "merged", "done", "reported"}

\* C23: when the spreadsheet cannot be read, the sales mapping is empty,
\* the merged list is the provider list with sales_count 0 and
\* accurate_cpa 0 on every entity, and a cycle with provider entities
\* still hands one report, with a line for each of them, to Slack.
C23_SheetFailureDegrades ==
    (AfterSales /\ ~sheet_ok) =>
        /\ sales_data = <<>>
        /\ AfterMerge =>
              /\ Len(metrics) = Len(parsed)
              /\ \A i \in DOMAIN metrics :
                    /\ metrics[i].sales_count = 0
                    /\ metrics[i].accurate_cpa = Zero
                    /\ metrics[i].publisher_name = parsed[i].publisher_name
        /\ (rstage = "reported" /\ parsed # <<>>) =>
              /\ Len(outbox) = 1
              /\ Len(outbox[1].table) = Len(parsed)
              /\ {outbox[1].table[i].publisher_name : i \in DOMAIN outbox[1].table}
                    = ProviderNames

\* the sheet had a sale of a provider entity in the window, could not be
\* read, and the report went out
C23_Witness ==
    /\ rstage = "reported"
    /\ ~sheet_ok
    /\ \E p \in ProviderNames :
          RowsInWindow(sheet, p, window.start, window.end) # {}
    /\ delivered # <<>>
    /\ delivered[1].kind = "2-hour"
    /\ \A i \in DOMAIN delivered[1].table :
          delivered[1].table[i].sales_count = 0

(***************************************************************************)
(* Claims about the cycles that deliver nothing (checked under SchedSpec). *)
(***************************************************************************)
\* instant u is a slot of the timetable
IsSlot(u) == ToEDT(u) % Day \in SlotSeconds

\* C24: a delivery that fails is attempted once in its cycle and raises
\* nothing; the loop computes the next trigger when the cycle ends, that
\* trigger is a later slot of the timetable, and nothing is posted before
\* the loop has slept until it.
C24_FailedDeliveryNotRetried ==
    /\ [](wake.post = "failed" =>
             /\ wake.posts = 1
             /\ ~wake.raised
             /\ spc = "wait"
             /\ wake.scheduled = wake.ended
             /\ next_run = GetNextReportTime(wake.ended)
             /\ next_run > wake.ended
             /\ IsSlot(next_run))
    /\ [][wake.post = "failed" =>
             /\ spc' = "woke"
             /\ now' >= next_run
             /\ wake'.trigger = next_run
             /\ wake'.posts = 0]_vars

\* the 19:00 report that Slack refused; the next trigger is the 21:00 slot
C24_Witness ==
    /\ wake.post = "failed"
    /\ wake.report_type = "2-hour"
    /\ HourOf(ToEDT(wake.trigger)) = 19
    /\ next_run = wake.trigger + 2 * Hour

\* C28: a cycle whose Ringba fetch returns no entity (the spreadsheet is
\* then not read at all) raises nothing, posts nothing, and the loop
\* computes the next trigger when it ends.
C28_EmptyCycleCompletes ==
    (wake.outcome = "cycle" /\ ~wake.fetched) =>
        /\ ~wake.raised
        /\ wake.post = "none"
        /\ wake.posts = 0
        /\ spc = "wait"
        /\ wake.scheduled = wake.ended
        /\ next_run = GetNextReportTime(wake.ended)
        /\ next_run > wake.trigger

\* an empty cycle in the middle of the day, with its next trigger two
\* hours on
C28_Witness ==
    /\ wake.outcome = "cycle"
    /\ ~wake.fetched
    /\ HourOf(ToEDT(wake.trigger)) = 13
    /\ next_run = wake.trigger + 2 * Hour

(***************************************************************************)
(* Claims about the ticks of background_writer (checked under Spec and     *)
(* LiveSpec).                                                               *)
(***************************************************************************)
\* background_writer is at the test of line 224, inside the lock
AtDrain == running = Writer /\ wpc = "locked"

\* C31: a drain, made with the lock held, splits the queue into its (at
\* most FlushBatch) oldest rows, which become the batch of the downstream
\* write, and the rest, which stays in order; the write appends that batch
\* and nothing else; a drain of an empty queue goes to the end of the tick
\* without a write.
C31_DrainOldestFirst ==
    /\ [](AtDrain => lock = Writer)
    /\ [](wpc = "write" => (batch # <<>> /\ Len(batch) <= FlushBatch))
    /\ [][AtDrain =>
             IF queue = <<>>
             THEN wpc' = "unlock" /\ UNCHANGED <<queue, batch, sink>>
             ELSE /\ wpc' = "write"
                  /\ Len(batch') = Min(FlushBatch, Len(queue))
                  /\ batch' \o queue' = queue
                  /\ sink' = sink]_vars
    /\ [][wpc = "write" =>
             \/ sink' = sink
             \/ sink' = [c \in CallIds |-> sink[c] + CountIn(batch, c)]]_vars

\* a drain that took a full batch and left a newer row behind
C31_Witness ==
    /\ wpc = "write"
    /\ lock = Writer
    /\ Len(batch) = FlushBatch
    /\ queue # <<>>
    /\ batch \o queue = SubSeq(enqueued, Len(enqueued) - Len(queue) - Len(batch) + 1,
                               Len(enqueued))

\* C32: after a tick whose downstream write failed, background_writer is
\* still running and the sleep before its next tick is longer than the
\* normal interval.
C32_BackoffAfterFailedWrite ==
    (wpc = "sleep" /\ tick.failed) => tick.delay > SleepInterval

\* C39: once requests stop arriving, the queue becomes empty and stays
\* empty; no step takes more than FlushBatch rows off it.
C39_QueueEventuallyEmpty ==
    /\ <>[](queue = <<>>)
    /\ [][Len(queue) - Len(queue') <= FlushBatch]_vars

\* the queue has been emptied by more than one tick
C39_Witness ==
    /\ queue = <<>>
    /\ wpc = "sleep"
    /\ Len(drained) > FlushBatch
    /\ drained = enqueued

(***************************************************************************)
(* Claims about the merged list (checked under ReconSpec).                 *)
(***************************************************************************)
\* C33: the merged list has the provider entities first, in the order of
\* the provider list, then the synthesized entities, whose names no
\* provider entity carries; no two entities of the list have the same
\* name.
C33_ProviderFirstUniqueNames ==
    AfterMerge =>
        /\ Len(metrics) >= Len(parsed)
        /\ \A i \in DOMAIN parsed :
              metrics[i].publisher_name = parsed[i].publisher_name
        /\ \A j \in DOMAIN metrics :
              j > Len(parsed) => metrics[j].publisher_name \in SalesOnlyNames
        /\ \A i, j \in DOMAIN metrics :
              i # j => metrics[i].publisher_name # metrics[j].publisher_name

\* the fields of an entity the merge has no business with
MergeFrame(m) == [m EXCEPT !.sales_count = 0, !.accurate_cpa = Zero]

\* C34: the merge keeps every provider entity in its place and changes
\* nothing of it but sales_count and accurate_cpa; an entity without a
\* sale in the mapping has sales_count 0 and accurate_cpa 0.
C34_MergeFrame ==
    AfterMerge =>
        /\ Len(metrics) >= Len(parsed)
        /\ \A i \in DOMAIN parsed :
              /\ MergeFrame(metrics[i]) = MergeFrame(parsed[i])
              /\ metrics[i].completed = parsed[i].completed
              /\ metrics[i].payout = parsed[i].payout
              /\ metrics[i].revenue = parsed[i].revenue
              /\ metrics[i].profit = parsed[i].profit
              /\ metrics[i].conversion_percent = parsed[i].conversion_percent
              /\ SalesGet(sales_data, parsed[i].publisher_name) = 0 =>
                    /\ metrics[i].sales_count = 0
                    /\ metrics[i].accurate_cpa = Zero

\* a provider entity with calls and payout and no sale, next to a publisher
\* that sold
C34_Witness ==
    /\ rstage = "merged"
    /\ sales_data # <<>>
    /\ \E i \in DOMAIN parsed :
          /\ parsed[i].completed > 0
          /\ parsed[i].payout > 0
          /\ SalesGet(sales_data, parsed[i].publisher_name) = 0
          /\ metrics[i].accurate_cpa = Zero

RECURSIVE SumCounts(_)
SumCounts(items) ==
    IF items = <<>> THEN 0 ELSE Head(items).count + SumCounts(Tail(items))

\* C36: the sales_count of the totals row, the sum of sales_count over the
\* merged list, is the sum of the values of the sales mapping.
C36_SalesConserved ==
    rstage \in {"done", "reported"} =>
        /\ totals.sales_count = SumCounts(sales_data)
        /\ SumField(metrics, "sales_count") = SumCounts(sales_data)

\* C38: a cycle whose provider list is empty while the sheet has sales in
\* the window hands a report to Slack, with a line for every publisher of
\* the sales mapping.
C38_SalesOnlyCycleDelivers ==
    (rstage = "reported" /\ parsed = <<>> /\ sheet_ok /\ sales_data # <<>>) =>
        /\ Len(outbox) = 1
        /\ \A i \in DOMAIN sales_data :
              \E j \in DOMAIN outbox[1].table :
                  outbox[1].table[j].publisher_name = sales_data[i].name

\* C40: the merge applied to its own result, with the same sales mapping,
\* returns that result.
C40_MergeIdempotent ==
    AfterMerge => EnhanceMetrics(metrics, sales_data) = metrics

\* a merged list with a provider entity that has sales and a CPA, and a
\* synthesized entity
C40_Witness ==
    /\ rstage = "reported"
    /\ Len(metrics) > Len(parsed)
    /\ metrics[Len(metrics)].sales_display # ""
    /\ \E i \in DOMAIN parsed :
          metrics[i].sales_count > 0 /\ metrics[i].accurate_cpa # Zero

(***************************************************************************)
(* Claims about the timetable and the windows of a run (checked under      *)
(* SchedSpec).                                                              *)
(***************************************************************************)
\* the slots of the local day of clock t that are strictly after t, as
\* seconds of that day
SlotsLeft(t) == {sec \in SlotSeconds : sec > ToEDT(t) % Day}

\* C35: while a slot of today's timetable is left, get_next_report_time
\* returns the earliest of today's slots that is strictly after the clock;
\* what it returns is always an instant of the timetable, on a full minute.
C35_EarliestSlotOfToday ==
    LET l == ToEDT(now)
        midnight == l - (l % Day)
        r == GetNextReportTime(now)
    IN  /\ SlotsLeft(now) # {} =>
              /\ (ToEDT(r) - midnight) \in SlotsLeft(now)
              /\ \A sec \in SlotsLeft(now) : ToEDT(r) - midnight <= sec
              /\ r > now
        /\ IsSlot(r)
        /\ r % Minute = 0

\* the service was started at 17:00:30 and waits for the 17:05 slot
C35_Witness ==
    /\ spc = "wait"
    /\ wake = NoWake
    /\ now % Minute # 0
    /\ HourOf(ToEDT(now)) = 17
    /\ MinuteOf(ToEDT(now)) = 0
    /\ MinuteOf(ToEDT(next_run)) = 5
    /\ next_run - now < 5 * Minute

\* C37: no window is fetched by two cycles: of the windows of a day each
\* starts and ends later than the one before, and the window of a cycle
\* starts and ends later than the window of the cycle before it, whatever
\* became of that cycle.
C37_NoWindowTwice ==
    /\ [](\A i, j \in DOMAIN windows :
             i < j => /\ windows[i].start < windows[j].start
                      /\ windows[i].end < windows[j].end)
    /\ [][(windows # <<>> /\ windows' # windows) =>
             /\ windows'[Len(windows')].start > windows[Len(windows)].start
             /\ windows'[Len(windows')].end > windows[Len(windows)].end]_vars

\* the third cycle of a day, after a cycle that ended with an exception
C37_Witness ==
    /\ Len(windows) = 3
    /\ wake.outcome = "cycle"
    /\ wake.raised
    /\ spc = "wait"

====
